---- MODULE Spec2Model ----
(***************************************************************************)
(* A model of scripts/context-monitor.py: the status-line formatter that   *)
(* reads one JSON document from standard input and prints one line.        *)
(*                                                                         *)
(* Python strings are sequences of one-character strings, so that slicing, *)
(* prefix tests and trimming are computed as the code computes them.  An   *)
(* ANSI escape sequence and a non-ASCII glyph are each one element of the  *)
(* sequence (ESC_RESET, GLYPH_FOLDER, ...).  A Python value carries its     *)
(* type name in field t; an operation that can raise returns a result      *)
(* record: Ok(value) or Raise(message).                                    *)
(***************************************************************************)
EXTENDS Integers, Sequences, FiniteSets, TLC

VARIABLES
    stdin,            \* environment: what is on standard input
    cwd,              \* environment: the process's working directory
    git,              \* environment: how the `git branch` subprocess ends
    pc,               \* position of main()
    data,             \* main(): local `data`
    model_name,       \* main(): local `model_name`
    workspace,        \* main(): local `workspace`
    cost_data,        \* main(): local `cost_data`
    directory,        \* main(): local `directory`
    session_metrics,  \* main(): local `session_metrics`
    git_branch,       \* main(): local `git_branch`
    exc,              \* main(): the exception caught at line 128
    stdout,           \* the lines written to standard output, one per print()
    exit_status,      \* the process's exit status, -1 while it runs
    stdin_reads,      \* how many times standard input was read
    fn,               \* function specifications: the function under check
    arg,              \* function specifications: its argument
    ret               \* function specifications: its result, once called

mainvars == <<stdin, cwd, git, pc, data, model_name, workspace, cost_data,
              directory, session_metrics, git_branch, exc, stdout,
              exit_status, stdin_reads>>
fnvars == <<fn, arg, ret>>
vars == <<mainvars, fnvars>>

----------------------------------------------------------------------------
(* Bounds of the model.                                                    *)

\* Longest path drawn for current_dir and project_dir.
MaxPathLen == 4
\* Durations are drawn up to this many whole seconds (31 minutes).
MaxSeconds == 1860
\* Costs are drawn up to this many half-mills (500 millionths of a dollar).
MaxCostSteps == 2400
\* Line counts are drawn from 0..MaxLines.
MaxLines == 12

----------------------------------------------------------------------------
(* Python values and results.                                              *)

PyStr(s) == [t |-> "str", v |-> s]
PyInt(n) == [t |-> "int", v |-> n]
\* A float that holds an amount of money, as a whole number of millionths.
PyFloat(micro) == [t |-> "float", v |-> micro]
PyNone == [t |-> "NoneType", v |-> 0]
PyDict(d) == [t |-> "dict", v |-> d]
PyList(l) == [t |-> "list", v |-> l]
EmptyDict == PyDict([k \in {} |-> PyNone])
\* A local that has not been assigned yet.
Unbound == [t |-> "unbound", v |-> 0]

Ok(x) == [ok |-> TRUE, val |-> x, msg |-> <<>>]
Raise(m) == [ok |-> FALSE, val |-> PyNone, msg |-> m]

TypeName(x) ==
    CASE x.t = "str" -> <<"s", "t", "r">>
      [] x.t = "int" -> <<"i", "n", "t">>
      [] x.t = "float" -> <<"f", "l", "o", "a", "t">>
      [] x.t = "NoneType" -> <<"N", "o", "n", "e", "T", "y", "p", "e">>
      [] x.t = "dict" -> <<"d", "i", "c", "t">>
      [] x.t = "list" -> <<"l", "i", "s", "t">>

\* bool(x)
Truthy(x) ==
    CASE x.t = "str" -> x.v # <<>>
      [] x.t = "int" -> x.v # 0
      [] x.t = "float" -> x.v # 0
      [] x.t = "NoneType" -> FALSE
      [] x.t = "dict" -> DOMAIN x.v # {}
      [] x.t = "list" -> x.v # <<>>

\* "'<type>' object has no attribute '<name>'"
AttributeError(x, name) ==
    <<"'">> \o TypeName(x)
    \o <<"'", " ", "o", "b", "j", "e", "c", "t", " ", "h", "a", "s", " ", "n",
         "o", " ", "a", "t", "t", "r", "i", "b", "u", "t", "e", " ", "'">>
    \o name \o <<"'">>

\* x[key]: a lookup that forgets the default.
PyGet_NoDefault(x, key, default) ==
    IF x.t # "dict" THEN Raise(AttributeError(x, <<"g", "e", "t">>))
    ELSE IF key \in DOMAIN x.v THEN Ok(x.v[key])
    ELSE Raise(<<"'", key, "'">>)

\* x.get(key, default)
PyGet(x, key, default) ==
    IF x.t = "dict"
    THEN Ok(IF key \in DOMAIN x.v THEN x.v[key] ELSE default)
    ELSE Raise(AttributeError(x, <<"g", "e", "t">>))

----------------------------------------------------------------------------
(* String operations.                                                      *)

\* s.startswith(p)
StartsWith(s, p) == Len(p) <= Len(s) /\ SubSeq(s, 1, Len(p)) = p

\* s.lstrip('/')
RECURSIVE LStripSlash(_)
LStripSlash(s) ==
    IF s # <<>> /\ Head(s) = "/" THEN LStripSlash(Tail(s)) ELSE s

\* os.path.basename(p) on POSIX: what follows the last '/'.
Basename(p) ==
    LET slashes == {i \in 1..Len(p) : p[i] = "/"}
        last == IF slashes = {} THEN 0
                ELSE CHOOSE i \in slashes : \A j \in slashes : j <= i
    IN SubSeq(p, last + 1, Len(p))

Whitespace == {" ", "\n", "\t"}

\* s.strip()
RECURSIVE Strip(_)
Strip(s) ==
    IF s = <<>> THEN s
    ELSE IF Head(s) \in Whitespace THEN Strip(Tail(s))
    ELSE IF s[Len(s)] \in Whitespace THEN Strip(SubSeq(s, 1, Len(s) - 1))
    ELSE s

\* s[:n]
Take(s, n) == SubSeq(s, 1, IF Len(s) < n THEN Len(s) ELSE n)

DigitChars == <<"0", "1", "2", "3", "4", "5", "6", "7", "8", "9">>

\* str(n) for n >= 0
RECURSIVE NatToStr(_)
NatToStr(n) ==
    IF n < 10 THEN <<DigitChars[n + 1]>>
    ELSE NatToStr(n \div 10) \o <<DigitChars[(n % 10) + 1]>>

\* str(abs(n)): the sign is lost.
IntToStr_NoSign(n) == NatToStr(IF n < 0 THEN -n ELSE n)

\* str(n)
IntToStr(n) == IF n < 0 THEN <<"-">> \o NatToStr(-n) ELSE NatToStr(n)

\* int(num / den): the quotient cut down, not rounded.
FormatFixed0_Truncate(num, den) == NatToStr(num \div den)

\* format(num / den, '.0f') for num >= 0, den > 0: the quotient rounded to
\* a whole number, an exact half going to the even neighbour.
FormatFixed0(num, den) ==
    LET q == num \div den
        r == num % den
    IN NatToStr(IF 2 * r < den THEN q
                ELSE IF 2 * r > den THEN q + 1
                ELSE IF q % 2 = 0 THEN q ELSE q + 1)

----------------------------------------------------------------------------
(* Escape sequences and glyphs of the output, each one element.            *)

ESC_RESET == "ESC[0m"
ESC_RED == "ESC[31m"
ESC_GREEN == "ESC[32m"
ESC_YELLOW == "ESC[33m"
ESC_GRAY == "ESC[90m"
ESC_BRIGHT_YELLOW == "ESC[93m"
ESC_BRIGHT_BLUE == "ESC[94m"
ESC_BRIGHT_MAGENTA == "ESC[95m"
GLYPH_FOLDER == "U+1F4C1"
GLYPH_BRANCH == "U+2387"
GLYPH_MONEY == "U+1F4B0"
GLYPH_TIMER == "U+23F1"
GLYPH_MEMO == "U+1F4DD"
GLYPH_CENT == "U+00A2"

----------------------------------------------------------------------------
(* get_directory_display                                                   *)

\* os.path.basename(p), which raises TypeError on what is no path.
os_path_basename(p) ==
    IF p.t = "str" THEN Ok(PyStr(Basename(p.v)))
    ELSE Raise(<<"e", "x", "p", "e", "c", "t", "e", "d", " ", "s", "t", "r",
                 ",", " ", "b", "y", "t", "e", "s", " ", "o", "r", " ", "o",
                 "s", ".", "P", "a", "t", "h", "L", "i", "k", "e", " ", "o",
                 "b", "j", "e", "c", "t", ",", " ", "n", "o", "t", " ">>
               \o TypeName(p))

get_directory_display(workspace_data) ==
    LET got == PyGet(workspace_data, "current_dir", PyStr(<<>>)) IN
    IF ~got.ok THEN got
    ELSE
    LET current_dir == got.val
        project_dir == PyGet(workspace_data, "project_dir", PyStr(<<>>)).val
    IN
    IF Truthy(current_dir) /\ Truthy(project_dir)
    THEN IF current_dir.t # "str"
         THEN Raise(AttributeError(current_dir,
                  <<"s", "t", "a", "r", "t", "s", "w", "i", "t", "h">>))
         ELSE IF project_dir.t # "str"
         THEN Raise(<<"s", "t", "a", "r", "t", "s", "w", "i", "t", "h", " ",
                      "f", "i", "r", "s", "t", " ", "a", "r", "g", " ", "m",
                      "u", "s", "t", " ", "b", "e", " ", "s", "t", "r", " ",
                      "o", "r", " ", "a", " ", "t", "u", "p", "l", "e", " ",
                      "o", "f", " ", "s", "t", "r", ",", " ", "n", "o", "t",
                      " ">> \o TypeName(project_dir))
         ELSE IF StartsWith(current_dir.v, project_dir.v)
         THEN LET rel_path ==
                      LStripSlash(SubSeq(current_dir.v, Len(project_dir.v) + 1,
                                         Len(current_dir.v)))
              IN IF rel_path # <<>> THEN Ok(PyStr(rel_path))
                 ELSE os_path_basename(project_dir)
         ELSE os_path_basename(current_dir)
    ELSE IF Truthy(project_dir) THEN os_path_basename(project_dir)
    ELSE IF Truthy(current_dir) THEN os_path_basename(current_dir)
    ELSE Ok(PyStr(<<"u", "n", "k", "n", "o", "w", "n">>))

----------------------------------------------------------------------------
(* get_git_branch                                                          *)

\* os.getcwd(): raises FileNotFoundError once the directory was removed.
os_getcwd(dir) ==
    IF dir.exists THEN Ok(PyStr(dir.path))
    ELSE Raise(<<"[", "E", "r", "r", "n", "o", " ", "2", "]", " ", "N", "o",
                 " ", "s", "u", "c", "h", " ", "f", "i", "l", "e", " ", "o",
                 "r", " ", "d", "i", "r", "e", "c", "t", "o", "r", "y">>)

\* subprocess.run(['git', 'branch', '--show-current'], timeout=1, ...): the
\* completed process, or the exception of a run that did not complete.
subprocess_run(outcome) ==
    IF outcome.kind = "exit"
    THEN Ok([returncode |-> outcome.returncode, stdout |-> outcome.out])
    ELSE Raise(<<outcome.kind>>)

\* The exit status of git is not looked at.
get_git_branch_AnyStatus(dir, outcome) ==
    LET where == os_getcwd(dir) IN
    IF ~where.ok THEN PyNone
    ELSE LET result == subprocess_run(outcome) IN
         IF ~result.ok THEN PyNone
         ELSE IF Strip(result.val.stdout) # <<>>
         THEN PyStr(Strip(result.val.stdout))
         ELSE PyNone

\* The branch name as a str, or None.
get_git_branch(dir, outcome) ==
    LET where == os_getcwd(dir) IN
    IF ~where.ok THEN PyNone
    ELSE LET result == subprocess_run(outcome) IN
         IF ~result.ok THEN PyNone
         ELSE IF result.val.returncode = 0 /\ Strip(result.val.stdout) # <<>>
         THEN PyStr(Strip(result.val.stdout))
         ELSE PyNone

----------------------------------------------------------------------------
(* get_session_metrics                                                     *)

\* Amounts of money are whole millionths of a dollar.
MicroPerDollar == 1000000
\* cost_usd >= 0.10, >= 0.05, < 0.01, as millionths.
CostRed == 100000
CostYellow == 50000
CostCents == 10000
\* minutes = duration_ms / 60000; minutes >= 30; duration_ms // 1000
MsPerMinute == 60000
LongSessionMinutes == 30
MsPerSecond == 1000

\* A number as millionths: an int counts whole dollars.
Micro(x) == IF x.t = "int" THEN x.v * MicroPerDollar ELSE x.v

\* x > 0, which raises TypeError on what is no number.
GreaterThanZero(x) ==
    IF x.t \in {"int", "float"} THEN Ok(x.v > 0)
    ELSE Raise(<<"'", ">", "'", " ", "n", "o", "t", " ", "s", "u", "p", "p",
                 "o", "r", "t", "e", "d", " ", "b", "e", "t", "w", "e", "e",
                 "n", " ", "i", "n", "s", "t", "a", "n", "c", "e", "s", " ",
                 "o", "f", " ", "'">> \o TypeName(x)
               \o <<"'", " ", "a", "n", "d", " ", "'", "i", "n", "t", "'">>)

\* format(micro / 1000000, '.2f'): two decimals for three.
FormatFixed3_TwoDecimals(micro) ==
    LET hundredths == (micro + 5000) \div 10000 IN
    {NatToStr(hundredths \div 100)
     \o <<".", DigitChars[((hundredths \div 10) % 10) + 1],
          DigitChars[(hundredths % 10) + 1]>>}

\* format(micro / 1000000, '.3f'): the digits Python can print.  Python
\* rounds the binary value of the float, so that an amount exactly halfway
\* between two thousandths goes to the one or to the other, as its binary
\* value lies (0.0115 prints 0.011 and 0.0125 prints 0.013): both are kept.
FormatFixed3(micro) ==
    LET q == micro \div 1000
        r == micro % 1000
        Text(th) == NatToStr(th \div 1000)
                    \o <<".", DigitChars[((th \div 100) % 10) + 1],
                         DigitChars[((th \div 10) % 10) + 1],
                         DigitChars[(th % 10) + 1]>>
    IN {Text(th) : th \in (IF r < 500 THEN {q}
                           ELSE IF r > 500 THEN {q + 1} ELSE {q, q + 1})}

\* Lines 53-64: the entries the cost adds to `metrics`.
CostMetric(cost_usd) ==
    LET positive == GreaterThanZero(cost_usd) IN
    IF ~positive.ok THEN {positive}
    ELSE IF ~positive.val THEN {Ok(<<>>)}
    ELSE LET c == Micro(cost_usd)
             cost_color == IF c >= CostRed THEN ESC_RED
                           ELSE IF c >= CostYellow THEN ESC_YELLOW
                           ELSE ESC_GREEN
             cost_strs == IF c < CostCents
                          THEN {FormatFixed0(c * 100, MicroPerDollar)
                                \o <<GLYPH_CENT>>}
                          ELSE {<<"$">> \o f : f \in FormatFixed3(c)}
         IN {Ok(<< <<cost_color, GLYPH_MONEY, " ">> \o cost_str
                   \o <<ESC_RESET>> >>) : cost_str \in cost_strs}

\* Lines 66-80: the entries the duration adds to `metrics`.
DurationMetric(duration_ms) ==
    LET positive == GreaterThanZero(duration_ms) IN
    IF ~positive.ok THEN positive
    ELSE IF ~positive.val THEN Ok(<<>>)
    ELSE LET ms == duration_ms.v
             duration_color == IF ms >= LongSessionMinutes * MsPerMinute
                               THEN ESC_YELLOW ELSE ESC_GREEN
             duration_str == IF ms < MsPerMinute
                             THEN NatToStr(ms \div MsPerSecond) \o <<"s">>
                             ELSE FormatFixed0(ms, MsPerMinute) \o <<"m">>
         IN Ok(<< <<duration_color, GLYPH_TIMER, " ">> \o duration_str
                  \o <<ESC_RESET>> >>)

\* Lines 82-96: the entries the line counts add to `metrics`.
LinesMetric(lines_added, lines_removed) ==
    LET added == GreaterThanZero(lines_added)
        removed == GreaterThanZero(lines_removed)
    IN
    IF ~added.ok THEN added
    ELSE IF ~added.val /\ ~removed.ok THEN removed
    ELSE IF ~added.val /\ ~removed.val THEN Ok(<<>>)
    ELSE IF lines_removed.t \notin {"int", "float"}
    THEN Raise(<<"u", "n", "s", "u", "p", "p", "o", "r", "t", "e", "d", " ",
                 "o", "p", "e", "r", "a", "n", "d", " ", "t", "y", "p", "e",
                 "(", "s", ")", " ", "f", "o", "r", " ", "-", ":", " ", "'">>
               \o TypeName(lines_added) \o <<"'", " ", "a", "n", "d", " ", "'">>
               \o TypeName(lines_removed) \o <<"'">>)
    ELSE LET net_lines == lines_added.v - lines_removed.v
             lines_color == IF net_lines > 0 THEN ESC_GREEN
                            ELSE IF net_lines < 0 THEN ESC_RED
                            ELSE ESC_YELLOW
             sign == IF net_lines >= 0 THEN <<"+">> ELSE <<>>
         IN Ok(<< <<lines_color, GLYPH_MEMO, " ">> \o sign
                  \o IntToStr(net_lines) \o <<ESC_RESET>> >>)

\* ' '.join(parts)
RECURSIVE JoinSpace(_)
JoinSpace(parts) ==
    IF parts = <<>> THEN <<>>
    ELSE IF Len(parts) = 1 THEN parts[1]
    ELSE parts[1] \o <<" ">> \o JoinSpace(Tail(parts))

\* The separator is written even when no entry was collected.
MetricsFragment_AlwaysSeparator(metrics) ==
    <<" ", ESC_GRAY, "|", ESC_RESET, " ">> \o JoinSpace(metrics)

\* Line 98: the fragment made of the collected entries.
MetricsFragment(metrics) ==
    IF metrics # <<>>
    THEN <<" ", ESC_GRAY, "|", ESC_RESET, " ">> \o JoinSpace(metrics)
    ELSE <<>>

\* The results get_session_metrics can give: one, but for a cost halfway
\* between two thousandths (see FormatFixed3).
get_session_metrics(cost) ==
    IF ~Truthy(cost) THEN {Ok(PyStr(<<>>))}
    ELSE IF cost.t # "dict" THEN {Raise(AttributeError(cost, <<"g", "e", "t">>))}
    ELSE
    LET duration == DurationMetric(PyGet(cost, "total_duration_ms", PyInt(0)).val)
        lines == LinesMetric(PyGet(cost, "total_lines_added", PyInt(0)).val,
                             PyGet(cost, "total_lines_removed", PyInt(0)).val)
    IN {IF ~c.ok THEN c
        ELSE IF ~duration.ok THEN duration
        ELSE IF ~lines.ok THEN lines
        ELSE Ok(PyStr(MetricsFragment(c.val \o duration.val \o lines.val)))
        : c \in CostMetric(PyGet(cost, "total_cost_usd", PyInt(0)).val)}

----------------------------------------------------------------------------
(* main                                                                    *)

\* json.load(sys.stdin): the decoded document, or JSONDecodeError on what
\* is no JSON (an empty input and stray text fail at the first character).
json_load(input) ==
    IF input.kind = "json" THEN Ok(input.value)
    ELSE Raise(<<"E", "x", "p", "e", "c", "t", "i", "n", "g", " ", "v", "a",
                 "l", "u", "e", ":", " ", "l", "i", "n", "e", " ", "1", " ",
                 "c", "o", "l", "u", "m", "n", " ", "1", " ", "(", "c", "h",
                 "a", "r", " ", "0", ")">>)

\* f"{x}"
PyFormat(x) ==
    CASE x.t = "str" -> x.v
      [] x.t = "int" -> IntToStr(x.v)
      [] x.t = "NoneType" -> <<"N", "o", "n", "e">>

\* The status line without its branch tag.
StatusLine_NoBranch(name, dir, branch, metrics) ==
    <<ESC_BRIGHT_BLUE, "[">> \o PyFormat(name) \o <<"]", ESC_RESET>>
    \o <<" ", ESC_BRIGHT_YELLOW, GLYPH_FOLDER, " ">>
    \o PyFormat(dir) \o <<ESC_RESET>> \o PyFormat(metrics)

\* Lines 116-124: the status line.
StatusLine(name, dir, branch, metrics) ==
    LET model_display == <<ESC_BRIGHT_BLUE, "[">> \o PyFormat(name)
                         \o <<"]", ESC_RESET>>
        branch_display == IF Truthy(branch)
                          THEN <<" ", ESC_BRIGHT_MAGENTA, GLYPH_BRANCH, " ">>
                               \o PyFormat(branch) \o <<ESC_RESET>>
                          ELSE <<>>
    IN model_display \o <<" ", ESC_BRIGHT_YELLOW, GLYPH_FOLDER, " ">>
       \o PyFormat(dir) \o <<ESC_RESET>> \o branch_display \o PyFormat(metrics)

\* str(e)[:20]
ErrorChars == 20

\* Line 130: the fallback line, for the working directory's path.
FallbackLine(path, message) ==
    <<ESC_BRIGHT_BLUE, "[", "C", "l", "a", "u", "d", "e", "]", ESC_RESET, " ",
      ESC_BRIGHT_YELLOW, GLYPH_FOLDER, " ">> \o Basename(path)
    \o <<ESC_RESET, " ", ESC_RED, "[", "E", "r", "r", "o", "r", ":", " ">>
    \o Take(message, ErrorChars) \o <<"]", ESC_RESET>>

NoException == [raised |-> FALSE, msg |-> <<>>]
Caught(m) == [raised |-> TRUE, msg |-> m]

\* Line 103.
ReadInput ==
    /\ pc = "read"
    /\ stdin_reads' = stdin_reads + 1
    /\ LET r == json_load(stdin) IN
       IF r.ok
       THEN data' = r.val /\ pc' = "extract" /\ exc' = exc
       ELSE data' = data /\ pc' = "except" /\ exc' = Caught(r.msg)
    /\ UNCHANGED <<stdin, cwd, git, model_name, workspace, cost_data,
                   directory, session_metrics, git_branch, stdout,
                   exit_status, fnvars>>

\* Lines 106-108.
Extract ==
    /\ pc = "extract"
    /\ LET m == PyGet(data, "model", EmptyDict)
           n == PyGet(m.val, "display_name",
                      PyStr(<<"C", "l", "a", "u", "d", "e">>))
       IN
       IF ~m.ok \/ ~n.ok
       THEN /\ pc' = "except"
            /\ exc' = Caught(IF ~m.ok THEN m.msg ELSE n.msg)
            /\ UNCHANGED <<model_name, workspace, cost_data>>
       ELSE /\ pc' = "directory"
            /\ model_name' = n.val
            /\ workspace' = PyGet(data, "workspace", EmptyDict).val
            /\ cost_data' = PyGet(data, "cost", EmptyDict).val
            /\ exc' = exc
    /\ UNCHANGED <<stdin, cwd, git, data, directory, session_metrics,
                   git_branch, stdout, exit_status, stdin_reads, fnvars>>

\* Line 111.
BuildDirectory ==
    /\ pc = "directory"
    /\ LET r == get_directory_display(workspace) IN
       IF r.ok
       THEN directory' = r.val /\ pc' = "metrics" /\ exc' = exc
       ELSE directory' = directory /\ pc' = "except" /\ exc' = Caught(r.msg)
    /\ UNCHANGED <<stdin, cwd, git, data, model_name, workspace, cost_data,
                   session_metrics, git_branch, stdout, exit_status,
                   stdin_reads, fnvars>>

\* Line 112.
BuildMetrics ==
    /\ pc = "metrics"
    /\ \E r \in get_session_metrics(cost_data) :
          IF r.ok
          THEN session_metrics' = r.val /\ pc' = "branch" /\ exc' = exc
          ELSE /\ session_metrics' = session_metrics
               /\ pc' = "except"
               /\ exc' = Caught(r.msg)
    /\ UNCHANGED <<stdin, cwd, git, data, model_name, workspace, cost_data,
                   directory, git_branch, stdout, exit_status, stdin_reads,
                   fnvars>>

\* Line 113.
BuildBranch ==
    /\ pc = "branch"
    /\ git_branch' = get_git_branch(cwd, git)
    /\ pc' = "print"
    /\ UNCHANGED <<stdin, cwd, git, data, model_name, workspace, cost_data,
                   directory, session_metrics, exc, stdout, exit_status,
                   stdin_reads, fnvars>>

\* Lines 116-126.
PrintStatus ==
    /\ pc = "print"
    /\ stdout' = Append(stdout, StatusLine(model_name, directory, git_branch,
                                           session_metrics))
    /\ pc' = "return"
    /\ UNCHANGED <<stdin, cwd, git, data, model_name, workspace, cost_data,
                   directory, session_metrics, git_branch, exc, exit_status,
                   stdin_reads, fnvars>>

\* Lines 128-130: the handler.  os.getcwd() is called outside any try: when
\* it raises, the exception leaves main() and the interpreter exits with
\* status 1, having printed nothing to standard output.
PrintFallback ==
    /\ pc = "except"
    /\ LET where == os_getcwd(cwd) IN
       IF where.ok
       THEN /\ stdout' = Append(stdout, FallbackLine(where.val.v, exc.msg))
            /\ pc' = "return"
            /\ exit_status' = exit_status
       ELSE /\ stdout' = stdout
            /\ pc' = "exit"
            /\ exit_status' = 1
    /\ UNCHANGED <<stdin, cwd, git, data, model_name, workspace, cost_data,
                   directory, session_metrics, git_branch, exc, stdin_reads,
                   fnvars>>

\* Lines 132-133: main() returned, the interpreter exits with status 0.
Exit ==
    /\ pc = "return"
    /\ pc' = "exit"
    /\ exit_status' = 0
    /\ UNCHANGED <<stdin, cwd, git, data, model_name, workspace, cost_data,
                   directory, session_metrics, git_branch, exc, stdout,
                   stdin_reads, fnvars>>

----------------------------------------------------------------------------
(* The environment main() runs in, and the specification of one run.       *)

NoKeys == [k \in {} |-> PyNone]

ModelValues ==
    {EmptyDict,
     PyDict("display_name" :> PyStr(<<"O", "p", "u", "s">>)),
     PyStr(<<"m">>)}

WorkspaceValues ==
    {EmptyDict,
     PyDict(("current_dir" :> PyStr(<<"/", "w", "/", "a", "p", "p", "/", "s", "r", "c">>))
            @@ ("project_dir" :> PyStr(<<"/", "w", "/", "a", "p", "p">>))),
     PyDict("project_dir" :> PyStr(<<"/", "w", "/", "a", "p", "p">>)),
     PyDict("current_dir" :> PyInt(5)),
     PyNone}

CostValues ==
    {PyDict(c @@ d @@ l) :
        c \in {NoKeys, "total_cost_usd" :> PyInt(0),
               "total_cost_usd" :> PyFloat(70000)},
        d \in {NoKeys, "total_duration_ms" :> PyInt(0),
               "total_duration_ms" :> PyInt(90000)},
        l \in {NoKeys,
               ("total_lines_added" :> PyInt(0)) @@ ("total_lines_removed" :> PyInt(0)),
               ("total_lines_added" :> PyInt(10)) @@ ("total_lines_removed" :> PyInt(3)),
               "total_lines_removed" :> PyInt(8)}}
    \cup {PyNone, PyDict("total_cost_usd" :> PyStr(<<"x">>))}

JsonObjects ==
    {PyDict(m @@ w @@ c) :
        m \in {NoKeys} \cup {"model" :> x : x \in ModelValues},
        w \in {NoKeys} \cup {"workspace" :> x : x \in WorkspaceValues},
        c \in {NoKeys} \cup {"cost" :> x : x \in CostValues}}

StdinInputs ==
    {[kind |-> "json", value |-> x] :
        x \in JsonObjects \cup {PyList(<<>>), PyNone, PyInt(5), PyStr(<<"x">>)}}
    \cup {[kind |-> k, value |-> PyNone] : k \in {"empty", "text"}}

CwdStates ==
    {[exists |-> TRUE, path |-> <<"/", "w", "/", "a", "p", "p">>],
     [exists |-> TRUE, path |-> <<"/">>],
     [exists |-> FALSE, path |-> <<"/", "w", "/", "a", "p", "p">>]}

GitOutcomes ==
    {[kind |-> "exit", returncode |-> 0, out |-> o] :
        o \in {<<>>, <<"\n">>, <<" ", "\n">>, <<"m", "a", "i", "n", "\n">>,
               <<" ", "d", "e", "v", " ", "\n">>}}
    \cup {[kind |-> "exit", returncode |-> 128, out |-> o] :
        o \in {<<>>, <<"m", "a", "i", "n", "\n">>}}
    \cup {[kind |-> k, returncode |-> 0, out |-> <<>>] :
        k \in {"TimeoutExpired", "FileNotFoundError", "OSError"}}

NotCalled == Raise(<<>>)

FnIdle ==
    /\ fn = [name |-> "none", called |-> FALSE]
    /\ arg = Unbound
    /\ ret = NotCalled

MainIdle ==
    /\ stdin = [kind |-> "none", value |-> PyNone]
    /\ cwd = [exists |-> TRUE, path |-> <<"/">>]
    /\ git = [kind |-> "exit", returncode |-> 0, out |-> <<>>]
    /\ pc = "idle"
    /\ data = Unbound /\ model_name = Unbound /\ workspace = Unbound
    /\ cost_data = Unbound /\ directory = Unbound
    /\ session_metrics = Unbound /\ git_branch = Unbound
    /\ exc = NoException
    /\ stdout = <<>>
    /\ exit_status = -1
    /\ stdin_reads = 0

Init ==
    /\ stdin \in StdinInputs
    /\ cwd \in CwdStates
    /\ git \in GitOutcomes
    /\ pc = "read"
    /\ data = Unbound /\ model_name = Unbound /\ workspace = Unbound
    /\ cost_data = Unbound /\ directory = Unbound
    /\ session_metrics = Unbound /\ git_branch = Unbound
    /\ exc = NoException
    /\ stdout = <<>>
    /\ exit_status = -1
    /\ stdin_reads = 0
    /\ FnIdle

Next ==
    \/ ReadInput
    \/ Extract
    \/ BuildDirectory
    \/ BuildMetrics
    \/ BuildBranch
    \/ PrintStatus
    \/ PrintFallback
    \/ Exit

Spec == Init /\ [][Next]_vars

----------------------------------------------------------------------------
(* Specifications of single functions: one call on an argument drawn from  *)
(* a bounded set.                                                          *)

CallDirectory ==
    /\ fn.name = "get_directory_display"
    /\ ~fn.called
    /\ ret' = get_directory_display(arg)
    /\ fn' = [fn EXCEPT !.called = TRUE]
    /\ UNCHANGED <<arg, mainvars>>

CallMetrics ==
    /\ fn.name = "get_session_metrics"
    /\ ~fn.called
    /\ ret' \in get_session_metrics(arg)
    /\ fn' = [fn EXCEPT !.called = TRUE]
    /\ UNCHANGED <<arg, mainvars>>

PathChars == {"/", "a", "b"}
Paths == UNION {[1..n -> PathChars] : n \in 0..MaxPathLen}

DirectoryInputs ==
    {PyDict(c @@ p) :
        c \in {NoKeys} \cup {"current_dir" :> PyStr(x) : x \in Paths},
        p \in {NoKeys} \cup {"project_dir" :> PyStr(x) : x \in Paths}}

DurationInputs ==
    {EmptyDict}
    \cup {PyDict("total_duration_ms" :> PyInt(sec * 1000 + ms)) :
            sec \in 0..MaxSeconds, ms \in {0, 1, 500, 999}}

CostInputs ==
    {EmptyDict, PyDict("total_cost_usd" :> PyInt(0)),
     PyDict("total_cost_usd" :> PyInt(1))}
    \cup {PyDict("total_cost_usd" :> PyFloat(step * 500 + micro)) :
            step \in 0..MaxCostSteps, micro \in {0, 1, 250, 499}}

LinesInputs ==
    {PyDict(a @@ r) :
        a \in {NoKeys} \cup {"total_lines_added" :> PyInt(n) : n \in 0..MaxLines},
        r \in {NoKeys} \cup {"total_lines_removed" :> PyInt(n) : n \in 0..MaxLines}}

InitFn(name, inputs) ==
    /\ fn = [name |-> name, called |-> FALSE]
    /\ arg \in inputs
    /\ ret = NotCalled
    /\ MainIdle

SpecDirectory ==
    InitFn("get_directory_display", DirectoryInputs) /\ [][CallDirectory]_vars
SpecDuration ==
    InitFn("get_session_metrics", DurationInputs) /\ [][CallMetrics]_vars
SpecCost ==
    InitFn("get_session_metrics", CostInputs) /\ [][CallMetrics]_vars
SpecLines ==
    InitFn("get_session_metrics", LinesInputs) /\ [][CallMetrics]_vars

----------------------------------------------------------------------------
(* What the claims speak of, stated apart from the operators above.        *)

Has(line, token) == \E i \in 1..Len(line) : line[i] = token

\* The last path segment: the suffix that follows the last separator.
FinalSegment(path) ==
    CHOOSE s \in {SubSeq(path, i, Len(path)) : i \in 1..Len(path) + 1} :
        /\ ~Has(s, "/")
        /\ Len(s) = Len(path) \/ path[Len(path) - Len(s)] = "/"

\* The label inside the directory tag of a printed line.
DirLabel(line) ==
    LET f == CHOOSE i \in 1..Len(line) : line[i] = GLYPH_FOLDER
        e == CHOOSE j \in f + 1..Len(line) :
                 /\ line[j] = ESC_RESET
                 /\ \A k \in f + 1..j - 1 : line[k] # ESC_RESET
    IN SubSeq(line, f + 2, e - 1)

\* A decimal numeral without a needless leading zero, and its value.
IsNumeral(d) ==
    /\ d # <<>>
    /\ \A i \in 1..Len(d) : \E k \in 1..10 : DigitChars[k] = d[i]
    /\ Len(d) > 1 => d[1] # "0"

RECURSIVE NumeralValue(_)
NumeralValue(d) ==
    IF d = <<>> THEN 0
    ELSE 10 * NumeralValue(SubSeq(d, 1, Len(d) - 1))
         + (CHOOSE k \in 0..9 : DigitChars[k + 1] = d[Len(d)])

Abs(n) == IF n < 0 THEN -n ELSE n

\* The value a key of the input holds, 0 when the key is absent.
NumberAt(d, key) == IF key \in DOMAIN d.v THEN Micro(d.v[key]) ELSE 0
IntAt(d, key) == IF key \in DOMAIN d.v THEN d.v[key].v ELSE 0

MetricsSeparator == <<" ", ESC_GRAY, "|", ESC_RESET, " ">>

\* The only entry of a metrics fragment that holds one entry: its colour,
\* its glyph and its text.
EntryShape(out) ==
    /\ Len(out) >= 10
    /\ SubSeq(out, 1, 5) = MetricsSeparator
    /\ out[8] = " "
    /\ out[Len(out)] = ESC_RESET
EntryColor(out) == out[6]
EntryGlyph(out) == out[7]
EntryText(out) == SubSeq(out, 9, Len(out) - 1)

----------------------------------------------------------------------------
(* C1: whatever is on standard input and however the branch lookup ends,   *)
(* the process reads standard input once, writes exactly one line to       *)
(* standard output and exits with status 0; the handler cannot raise.      *)
C1_OneLineAndExitZero ==
    /\ Len(stdout) <= 1
    /\ stdin_reads <= 1
    /\ pc = "exit" => exit_status = 0 /\ Len(stdout) = 1 /\ stdin_reads = 1

(* C2: whenever a step of main() raises, the one line written is the       *)
(* fallback line: the tag [Claude], the last segment of the working        *)
(* directory, and the first 20 characters of the exception's message (the  *)
(* whole message when it is shorter).                                      *)
C2_FallbackLineOnException ==
    pc = "exit" /\ exc.raised =>
        stdout =
          << <<ESC_BRIGHT_BLUE, "[", "C", "l", "a", "u", "d", "e", "]",
               ESC_RESET, " ", ESC_BRIGHT_YELLOW, GLYPH_FOLDER, " ">>
             \o FinalSegment(cwd.path)
             \o <<ESC_RESET, " ", ESC_RED, "[", "E", "r", "r", "o", "r", ":",
                  " ">>
             \o [i \in 1..(IF Len(exc.msg) < 20 THEN Len(exc.msg) ELSE 20)
                   |-> exc.msg[i]]
             \o <<"]", ESC_RESET>> >>

\* The input is a JSON object whose present fields have the documented types.
WellTypedInput ==
    /\ stdin.kind = "json"
    /\ stdin.value.t = "dict"
    /\ LET o == stdin.value.v IN
       /\ "model" \in DOMAIN o =>
            /\ o["model"].t = "dict"
            /\ \A k \in DOMAIN o["model"].v : o["model"].v[k].t = "str"
       /\ "workspace" \in DOMAIN o =>
            /\ o["workspace"].t = "dict"
            /\ \A k \in DOMAIN o["workspace"].v : o["workspace"].v[k].t = "str"
       /\ "cost" \in DOMAIN o =>
            /\ o["cost"].t = "dict"
            /\ \A k \in DOMAIN o["cost"].v :
                   o["cost"].v[k].t \in {"int", "float"}

\* The object a key of the input holds, the empty object when it is absent.
InputObject(key) ==
    IF key \in DOMAIN stdin.value.v THEN stdin.value.v[key] ELSE EmptyDict

AllOptionalMissing ==
    /\ stdin.kind = "json"
    /\ stdin.value.t = "dict"
    /\ \A k \in DOMAIN stdin.value.v :
           stdin.value.v[k].t = "dict" /\ DOMAIN stdin.value.v[k].v = {}

\* The branch lookup of this run finds a name: the working directory is
\* there, git ends with status 0 and prints more than white space.
BranchFound ==
    /\ cwd.exists
    /\ git.kind = "exit"
    /\ git.returncode = 0
    /\ \E i \in 1..Len(git.out) : git.out[i] \notin Whitespace

(* C4, as claimed: for an input without any optional field the output is   *)
(* one non-empty line with the directory label "unknown", without branch   *)
(* fragment and without metrics fragment.                                  *)
C4_NoBranchNoMetrics ==
    pc = "exit" /\ AllOptionalMissing =>
        /\ Len(stdout) = 1
        /\ stdout[1] # <<>>
        /\ DirLabel(stdout[1]) = <<"u", "n", "k", "n", "o", "w", "n">>
        /\ ~Has(stdout[1], GLYPH_BRANCH)
        /\ ~Has(stdout[1], ESC_GRAY)

(* C4, amended: for an input without any optional field the output is one  *)
(* non-empty line with the directory label "unknown" and without metrics   *)
(* fragment; it holds a branch fragment exactly when the branch lookup in  *)
(* the working directory finds a name, which does not depend on the input. *)
C4_UnknownNoMetricsBranchFromGit ==
    pc = "exit" /\ AllOptionalMissing =>
        /\ Len(stdout) = 1
        /\ stdout[1] # <<>>
        /\ DirLabel(stdout[1]) = <<"u", "n", "k", "n", "o", "w", "n">>
        /\ Has(stdout[1], GLYPH_BRANCH) <=> BranchFound
        /\ ~Has(stdout[1], ESC_GRAY)

\* The empty object was formatted in a repository on branch main.
C4_Witness ==
    /\ pc = "exit"
    /\ stdin.kind = "json"
    /\ stdin.value = EmptyDict
    /\ Len(stdout) = 1
    /\ Has(stdout[1], GLYPH_BRANCH)
    /\ DirLabel(stdout[1]) = <<"u", "n", "k", "n", "o", "w", "n">>

----------------------------------------------------------------------------
\* project is a path prefix of current: current is project itself, or goes
\* on below it after a separator.
IsPathPrefix(project, current) ==
    /\ Len(project) <= Len(current)
    /\ \A i \in 1..Len(project) : current[i] = project[i]
    /\ \/ Len(current) = Len(project)
       \/ project[Len(project)] = "/"
       \/ current[Len(project) + 1] = "/"

\* What is left of current after project and the separators that follow.
Remainder(project, current) ==
    LET rest == [i \in 1..Len(current) - Len(project)
                    |-> current[Len(project) + i]]
        lead == CHOOSE n \in 0..Len(rest) :
                    /\ \A i \in 1..n : rest[i] = "/"
                    /\ n < Len(rest) => rest[n + 1] # "/"
    IN [i \in 1..Len(rest) - lead |-> rest[lead + i]]

PathAt(d, key) == IF key \in DOMAIN d.v THEN d.v[key].v ELSE <<>>

(* C5: get_directory_display returns, for all strings current_dir and      *)
(* project_dir: (1) both given and project_dir a path prefix of            *)
(* current_dir: what is left of current_dir after project_dir and the      *)
(* separators, or the last segment of project_dir when nothing is left;    *)
(* (2) both given and current_dir not under project_dir: the last segment  *)
(* of current_dir; (3) only project_dir: its last segment; (4) only        *)
(* current_dir: its last segment; (5) neither: "unknown".  It never raises.*)
C5_DirectoryPriority ==
    fn.called =>
        LET current == PathAt(arg, "current_dir")
            project == PathAt(arg, "project_dir")
        IN
        /\ ret.ok
        /\ ret.val.t = "str"
        /\ ret.val.v =
             IF current # <<>> /\ project # <<>>
             THEN IF IsPathPrefix(project, current)
                  THEN IF Remainder(project, current) # <<>>
                       THEN Remainder(project, current)
                       ELSE FinalSegment(project)
                  ELSE FinalSegment(current)
             ELSE IF project # <<>> THEN FinalSegment(project)
             ELSE IF current # <<>> THEN FinalSegment(current)
             ELSE <<"u", "n", "k", "n", "o", "w", "n">>

----------------------------------------------------------------------------
(* C6: the duration entry is there exactly when total_duration_ms > 0; it  *)
(* reads "<n>s" with n the whole seconds when the duration is under one    *)
(* minute and "<n>m" with n the minutes rounded to the nearest whole       *)
(* minute otherwise (90000 ms gives "2m"); it is yellow exactly from       *)
(* 1800000 ms on and green below.                                          *)
C6_DurationEntry ==
    fn.called =>
        LET ms == IntAt(arg, "total_duration_ms")
            out == ret.val.v
        IN
        /\ ret.ok
        /\ ms <= 0 => out = <<>>
        /\ ms > 0 =>
            /\ EntryShape(out)
            /\ EntryGlyph(out) = GLYPH_TIMER
            /\ EntryColor(out) = IF ms >= 1800000 THEN ESC_YELLOW ELSE ESC_GREEN
            /\ LET text == EntryText(out)
                   digits == SubSeq(text, 1, Len(text) - 1)
                   unit == text[Len(text)]
                   n == NumeralValue(digits)
               IN
               /\ IsNumeral(digits)
               /\ ms < 60000 =>
                    unit = "s" /\ n * 1000 <= ms /\ ms < (n + 1) * 1000
               /\ ms >= 60000 =>
                    unit = "m" /\ 2 * Abs(n * 60000 - ms) <= 60000
               /\ ms = 45000 => text = <<"4", "5", "s">>
               /\ ms = 90000 => text = <<"2", "m">>

\* 90000 ms was formatted as two minutes, in green.
C6_Witness ==
    /\ fn.called
    /\ IntAt(arg, "total_duration_ms") = 90000
    /\ ret.ok
    /\ EntryText(ret.val.v) = <<"2", "m">>
    /\ EntryColor(ret.val.v) = ESC_GREEN

(* C7: the cost entry is there exactly when total_cost_usd > 0; below one  *)
(* cent it reads the cost in cents, rounded to the nearest whole cent,     *)
(* then the cent sign; otherwise a dollar sign and the cost with exactly   *)
(* three decimals; it is red from $0.10 on, yellow from $0.05 up to $0.10  *)
(* and green below $0.05.                                                  *)
C7_CostEntry ==
    fn.called =>
        LET c == NumberAt(arg, "total_cost_usd")
            out == ret.val.v
        IN
        /\ ret.ok
        /\ c <= 0 => out = <<>>
        /\ c > 0 =>
            /\ EntryShape(out)
            /\ EntryGlyph(out) = GLYPH_MONEY
            /\ EntryColor(out) = IF c >= 100000 THEN ESC_RED
                                 ELSE IF c >= 50000 THEN ESC_YELLOW
                                 ELSE ESC_GREEN
            /\ LET text == EntryText(out) IN
               /\ c < 10000 =>
                    LET digits == SubSeq(text, 1, Len(text) - 1) IN
                    /\ text[Len(text)] = GLYPH_CENT
                    /\ IsNumeral(digits)
                    /\ 2 * Abs(NumeralValue(digits) * 10000 - c) <= 10000
               /\ c >= 10000 =>
                    LET whole == SubSeq(text, 2, Len(text) - 4)
                        decimals == SubSeq(text, Len(text) - 2, Len(text))
                    IN
                    /\ Len(text) >= 6
                    /\ text[1] = "$"
                    /\ text[Len(text) - 3] = "."
                    /\ IsNumeral(whole)
                    /\ \A i \in 1..3 : IsNumeral(<<decimals[i]>>)
                    /\ 2 * Abs((NumeralValue(whole) * 1000
                                + NumeralValue(decimals)) * 1000 - c) <= 1000
               /\ c = 3000 => text = <<"0", GLYPH_CENT>>
               /\ c = 30000 => text = <<"$", "0", ".", "0", "3", "0">>

\* Three cents were formatted as $0.030, in green.
C7_Witness ==
    /\ fn.called
    /\ NumberAt(arg, "total_cost_usd") = 30000
    /\ ret.ok
    /\ EntryText(ret.val.v) = <<"$", "0", ".", "0", "3", "0">>
    /\ EntryColor(ret.val.v) = ESC_GREEN

(* C8: the net-lines entry is there exactly when total_lines_added > 0 or  *)
(* total_lines_removed > 0; net = added - removed is written with a "+"    *)
(* when net >= 0 ("+0" too) and with its own minus sign when net < 0; it   *)
(* is green when net > 0, red when net < 0 and yellow when net = 0.        *)
C8_NetLinesEntry ==
    fn.called =>
        LET added == IntAt(arg, "total_lines_added")
            removed == IntAt(arg, "total_lines_removed")
            net == added - removed
            out == ret.val.v
        IN
        /\ ret.ok
        /\ ~(added > 0 \/ removed > 0) => out = <<>>
        /\ added > 0 \/ removed > 0 =>
            /\ EntryShape(out)
            /\ EntryGlyph(out) = GLYPH_MEMO
            /\ EntryColor(out) = IF net > 0 THEN ESC_GREEN
                                 ELSE IF net < 0 THEN ESC_RED
                                 ELSE ESC_YELLOW
            /\ LET text == EntryText(out)
                   digits == Tail(text)
               IN
               /\ Len(text) >= 2
               /\ text[1] = IF net >= 0 THEN "+" ELSE "-"
               /\ IsNumeral(digits)
               /\ NumeralValue(digits) = Abs(net)
               /\ added = 10 /\ removed = 3 => text = <<"+", "7">>
               /\ added = 2 /\ removed = 10 => text = <<"-", "8">>
               /\ added = 5 /\ removed = 5 => text = <<"+", "0">>

\* Five lines added and five removed were formatted as +0, in yellow.
C8_Witness ==
    /\ fn.called
    /\ IntAt(arg, "total_lines_added") = 5
    /\ IntAt(arg, "total_lines_removed") = 5
    /\ ret.ok
    /\ EntryText(ret.val.v) = <<"+", "0">>
    /\ EntryColor(ret.val.v) = ESC_YELLOW

----------------------------------------------------------------------------
\* b is o without the white space at its two ends.
IsTrimOf(b, o) ==
    /\ b # <<>>
    /\ b[1] \notin Whitespace
    /\ b[Len(b)] \notin Whitespace
    /\ \E i \in 1..Len(o) :
          /\ i + Len(b) - 1 <= Len(o)
          /\ \A j \in 1..Len(o) :
                IF j >= i /\ j < i + Len(b) THEN o[j] = b[j - i + 1]
                ELSE o[j] \in Whitespace

\* The model tag and the directory tag of the run, as main() holds them.
ModelAndDirectoryTags ==
    <<ESC_BRIGHT_BLUE, "[">> \o model_name.v \o <<"]", ESC_RESET, " ",
      ESC_BRIGHT_YELLOW, GLYPH_FOLDER, " ">> \o directory.v \o <<ESC_RESET>>

(* C9: get_git_branch never raises to main(): it returns the trimmed       *)
(* branch name exactly when git ends with status 0 and prints more than    *)
(* white space, and None in every other outcome (git missing, timed out,   *)
(* failing, printing nothing, any other exception); with None, main()      *)
(* prints the status line without branch tag, on the normal path.          *)
C9_BranchLookup ==
    git_branch # Unbound =>
        /\ ~exc.raised
        /\ pc \in {"print", "return", "exit"}
        /\ IF BranchFound
           THEN git_branch.t = "str" /\ IsTrimOf(git_branch.v, git.out)
           ELSE git_branch = PyNone
        /\ pc = "exit" /\ git_branch = PyNone =>
            /\ exit_status = 0
            /\ ~Has(stdout[1], GLYPH_BRANCH)
            /\ stdout = <<ModelAndDirectoryTags \o session_metrics.v>>

\* A run whose branch lookup timed out has printed its status line.
C9_Witness ==
    /\ pc = "exit"
    /\ git.kind = "TimeoutExpired"
    /\ cwd.exists
    /\ git_branch = PyNone
    /\ Len(stdout) = 1
    /\ Has(stdout[1], GLYPH_TIMER)

MetricGlyphs == {GLYPH_MONEY, GLYPH_TIMER, GLYPH_MEMO}

(* C10: get_session_metrics returns the empty string exactly when none of  *)
(* the cost, duration and net-lines entries qualifies; otherwise the dim   *)
(* separator followed by the qualifying entries alone, each there or not   *)
(* whatever the other two, joined by single spaces in the order cost,      *)
(* duration, net lines; main() appends it after the model tag, the         *)
(* directory tag and the branch tag, if any, in that order.                *)
C10_MetricsFragmentAndOrder ==
    session_metrics.t = "str" =>
        LET out == session_metrics.v
            given == cost_data.t = "dict"
            hasCost == given /\ NumberAt(cost_data, "total_cost_usd") > 0
            hasDuration == given /\ IntAt(cost_data, "total_duration_ms") > 0
            hasLines == given /\ (\/ IntAt(cost_data, "total_lines_added") > 0
                                  \/ IntAt(cost_data, "total_lines_removed") > 0)
            entries == (IF hasCost THEN <<GLYPH_MONEY>> ELSE <<>>)
                       \o (IF hasDuration THEN <<GLYPH_TIMER>> ELSE <<>>)
                       \o (IF hasLines THEN <<GLYPH_MEMO>> ELSE <<>>)
            body == SubSeq(out, 6, Len(out))
        IN
        /\ out = <<>> <=> entries = <<>>
        /\ out # <<>> =>
            /\ SubSeq(out, 1, 5) = MetricsSeparator
            /\ SelectSeq(body, LAMBDA x : x \in MetricGlyphs) = entries
            /\ Len(SelectSeq(body, LAMBDA x : x = ESC_RESET)) = Len(entries)
            /\ ~Has(body, ESC_GRAY)
            /\ body[Len(body)] = ESC_RESET
            /\ \A i \in 1..Len(body) :
                  /\ body[i] \in MetricGlyphs =>
                        /\ body[i - 1] \in {ESC_RED, ESC_GREEN, ESC_YELLOW}
                        /\ i = 2 \/ (body[i - 2] = " " /\ body[i - 3] = ESC_RESET)
                  /\ body[i] = ESC_RESET /\ i < Len(body) =>
                        body[i + 1] = " " /\ body[i + 2] # " "
        /\ pc = "exit" /\ ~exc.raised =>
            stdout = <<ModelAndDirectoryTags
                       \o (IF git_branch = PyNone THEN <<>>
                           ELSE <<" ", ESC_BRIGHT_MAGENTA, GLYPH_BRANCH, " ">>
                                \o git_branch.v \o <<ESC_RESET>>)
                       \o out>>

\* A run with cost, duration and line counts, on a branch, has printed the
\* four parts.
C10_Witness ==
    /\ pc = "exit"
    /\ ~exc.raised
    /\ Len(stdout) = 1
    /\ \A g \in MetricGlyphs \cup {GLYPH_BRANCH, GLYPH_FOLDER} : Has(stdout[1], g)

====
